---- MODULE Spec2Model ----
(***************************************************************************)
(* Fixed-depth Merkle tree engine of lib/merkletree.js: tree construction  *)
(* (generateMerkleRoot, padTree, ensureEven), proof generation             *)
(* (generateMerkleProof) and proof reduction (getMerkleRootFromMerkleProof)*)
(* driven by a caller that owns one leaf array and keeps the last results. *)
(*                                                                         *)
(* JavaScript arrays are sequences; index i of the code is i + 1 here.     *)
(* An array that the code shares by reference (the caller's leaves are     *)
(* tree.layers[0]) is one value here, and every operator that pushes to it *)
(* hands the pushed array back to its caller.                              *)
(***************************************************************************)
EXTENDS Integers, Sequences, FiniteSets, TLC

\* ------------------------------------------------------------------ bounds
\* longest leaf array the caller starts with
MaxLeaves == 3
\* leaf values are 0..MaxElem
MaxElem == 2

\* The depths the tree is configured with.  The source fixes TREELEVELS to 20;
\* a 20 level tree overflows only beyond 2^19 leaves, so the model runs the
\* same code with small depths, where every leaf count (below, at and above
\* the capacity 2^(TREELEVELS-1)) is enumerable.
Depths == {2, 3}

\* The stand-ins for the Poseidon hash: an injective pairing and a plain sum.
Stubs == {"pairing", "sum"}

\* ------------------------------------------------------- JavaScript values
\* the value `undefined` (an array read outside its bounds, a missing argument)
Undefined == -1
\* marks a call of hashLeaves that threw (BigInt(undefined) is a TypeError)
TypeError == -2

LEFT == 0
RIGHT == 1

VARIABLES
  TREELEVELS,  \* the configured depth (const TREELEVELS)
  stub,        \* which stand-in hashLeaves uses
  leaves,      \* the caller's leaf array
  built,       \* outcome of the caller's last generateMerkleTree(leaves)
  query,       \* arguments of the caller's last generateMerkleProof
  proof,       \* outcome of that call (entries possibly altered by Tamper)
  prior,       \* arguments and outcome of the generateMerkleProof call before it
  tamper,      \* what the caller changed in the proof since it was returned
  reduced,     \* outcome of the last getMerkleRootFromMerkleProof(proof)
  encoded,     \* outcome of the last encodeForCircuit(proof)
  calls        \* the calls in flight when several run interleaved

vars == <<TREELEVELS, stub, leaves, built, query, proof, prior, tamper, reduced,
          encoded, calls>>

\* ------------------------------------------------------ JavaScript helpers
\* a % b of JavaScript: the sign follows the dividend
JSRem(a, b) == IF a >= 0 THEN a % b ELSE -((-a) % b)

\* arr[i] of JavaScript: undefined outside the array
At(arr, i) == IF i >= 0 /\ i < Len(arr) THEN arr[i + 1] ELSE Undefined

\* arr.findIndex(h => h === leaf): first match, -1 when there is none
findIndex(arr, leaf) ==
  IF \E i \in 1..Len(arr) : arr[i] = leaf
  THEN (CHOOSE i \in 1..Len(arr) :
          arr[i] = leaf /\ \A j \in 1..(i - 1) : arr[j] # leaf) - 1
  ELSE -1

\* !leaf of JavaScript for the leaf argument: 0n and undefined are falsy
Falsy(leaf) == leaf = 0 \/ leaf = Undefined

\* ------------------------------------------------------------ hash function
\* Szudzik's pairing, a bijection between pairs of naturals and naturals
Pairing(a, b) == IF a < b THEN b * b + a ELSE a * a + a + b

hashLeaves(left, right) ==
  IF left = Undefined \/ right = Undefined
  THEN TypeError
  ELSE IF stub = "sum" THEN left + right ELSE Pairing(left, right)

\* ------------------------------------------------------------- tree builder
\* an ensureEven that duplicates the first element instead of the last
ensureEvenFirst(l) ==
  IF Len(l) % 2 # 0 THEN Append(l, l[1]) ELSE l

ensureEven(l) ==
  IF Len(l) % 2 # 0 THEN Append(l, l[Len(l)]) ELSE l

\* `lvs` is the array object held in the last slot of tree.layers, so the push
\* of ensureEven lands in the tree.  Result: whether a hash threw, and the tree.
RECURSIVE generateMerkleRoot(_, _)
generateMerkleRoot(lvs, tree) ==
  IF Len(lvs) = 0
  THEN [threw |-> FALSE, tree |-> tree]
  ELSE LET even == ensureEven(lvs)
           n == Len(tree.layers)
           padded == [tree EXCEPT !.layers[n] = even]
           combinedHashes ==
             [i \in 1..(Len(even) \div 2) |-> hashLeaves(even[2 * i - 1], even[2 * i])]
       IN IF \E i \in 1..Len(combinedHashes) : combinedHashes[i] = TypeError
          THEN [threw |-> TRUE, tree |-> padded]
          ELSE LET pushed == [layers |-> Append(padded.layers, combinedHashes)]
               IN IF Len(combinedHashes) = 1
                  THEN [threw |-> FALSE, tree |-> pushed]
                  ELSE generateMerkleRoot(combinedHashes, pushed)

\* the loop of padTree from index i on
\* a padding loop that does not push the copy of the root to its layer
RECURSIVE padLoopNoPush(_, _)
padLoopNoPush(tree, i) ==
  IF i < TREELEVELS - 1
  THEN LET lastRoot == At(tree.layers[i + 1], 0)
           newRoot == hashLeaves(lastRoot, lastRoot)
       IN IF newRoot = TypeError
          THEN [threw |-> TRUE, tree |-> tree]
          ELSE padLoopNoPush([layers |-> Append(tree.layers, <<newRoot>>)], i + 1)
  ELSE [threw |-> FALSE, tree |-> tree]

\* a padding loop that stops one level early (i < TREELEVELS - 2)
RECURSIVE padLoopShort(_, _)
padLoopShort(tree, i) ==
  IF i < TREELEVELS - 2
  THEN LET lastRoot == At(tree.layers[i + 1], 0)
           pushed == [tree EXCEPT !.layers[i + 1] = Append(@, lastRoot)]
           newRoot == hashLeaves(lastRoot, lastRoot)
       IN IF newRoot = TypeError
          THEN [threw |-> TRUE, tree |-> pushed]
          ELSE padLoopShort([layers |-> Append(pushed.layers, <<newRoot>>)], i + 1)
  ELSE [threw |-> FALSE, tree |-> tree]

\* for (let i = tree.layers.length - 1; i < TREELEVELS - 1; i++) of padTree
RECURSIVE padLoop(_, _)
padLoop(tree, i) ==
  IF i < TREELEVELS - 1
  THEN LET lastRoot == At(tree.layers[i + 1], 0)
           pushed == [tree EXCEPT !.layers[i + 1] = Append(@, lastRoot)]
           newRoot == hashLeaves(lastRoot, lastRoot)
       IN IF newRoot = TypeError
          THEN [threw |-> TRUE, tree |-> pushed]
          ELSE padLoop([layers |-> Append(pushed.layers, <<newRoot>>)], i + 1)
  ELSE [threw |-> FALSE, tree |-> tree]

\* Result: status "ok" with the tree and its root, or "TypeError"; `leaves` is
\* the caller's array after the call (it is tree.layers[0]).
padTree(tree) ==
  LET r == padLoop(tree, Len(tree.layers) - 1)
  IN IF r.threw
     THEN [status |-> "TypeError", tree |-> [layers |-> <<>>], root |-> Undefined,
           leaves |-> r.tree.layers[1]]
     ELSE [status |-> "ok", tree |-> r.tree,
           root |-> At(r.tree.layers[Len(r.tree.layers)], 0),
           leaves |-> r.tree.layers[1]]

generateMerkleTree(lvs) ==
  LET r == generateMerkleRoot(lvs, [layers |-> <<lvs>>])
  IN IF r.threw
     THEN [status |-> "TypeError", tree |-> [layers |-> <<>>], root |-> Undefined,
           leaves |-> r.tree.layers[1]]
     ELSE padTree(r.tree)

\* ----------------------------------------------------------- proof generator
\* a direction lookup with the two directions swapped
getLeafNodeDirectionSwapped(leaf, merkleTree) ==
  LET hashIndex == findIndex(merkleTree[1], leaf)
  IN IF JSRem(hashIndex, 2) = 0 THEN RIGHT ELSE LEFT

getLeafNodeDirectionInMerkleTree(leaf, merkleTree) ==
  LET hashIndex == findIndex(merkleTree[1], leaf)
  IN IF JSRem(hashIndex, 2) = 0 THEN LEFT ELSE RIGHT

\* the loop of generateMerkleProof from `level` on
RECURSIVE proofLoop(_, _, _, _)
proofLoop(tree, merkleProof, hashIndex, level) ==
  IF level < Len(tree.layers) - 1
  THEN LET isLeftChild == JSRem(hashIndex, 2) = 0
           siblingDirection == IF isLeftChild THEN RIGHT ELSE LEFT
           siblingIndex == IF isLeftChild THEN hashIndex + 1 ELSE hashIndex - 1
           siblingNode == [hash |-> At(tree.layers[level + 1], siblingIndex),
                           direction |-> siblingDirection]
       IN proofLoop(tree, Append(merkleProof, siblingNode), hashIndex \div 2, level + 1)
  ELSE merkleProof

\* lvs: [isArray, elems], the leaves argument (isArray = FALSE: null/undefined).
\* cachedTree: [kind, layers], kind "tree" (a tree object), "null", or
\* "undefined" (the argument left out).

\* a call that builds with generateMerkleRoot alone and skips padTree
treeOfUnpadded(lvs, cachedTree) ==
  IF cachedTree.kind # "null"
  THEN [status |-> "ok", defined |-> cachedTree.kind = "tree",
        tree |-> [layers |-> cachedTree.layers], leaves |-> lvs.elems]
  ELSE LET r == generateMerkleRoot(lvs.elems, [layers |-> <<lvs.elems>>])
       IN [status |-> IF r.threw THEN "TypeError" ELSE "ok", defined |-> TRUE,
           tree |-> r.tree, leaves |-> r.tree.layers[1]]

\* a loose comparison (cachedTree != null), which takes undefined for null
treeOfLoose(lvs, cachedTree) ==
  IF cachedTree.kind = "tree"
  THEN [status |-> "ok", defined |-> TRUE,
        tree |-> [layers |-> cachedTree.layers], leaves |-> lvs.elems]
  ELSE LET gen == generateMerkleTree(lvs.elems)
       IN [status |-> gen.status, defined |-> TRUE, tree |-> gen.tree,
           leaves |-> gen.leaves]

\* a call that runs generateMerkleRoot on the cached tree object again, which
\* pushes the hashes of its layer 0 to it as one more layer
treeOfRebuilt(lvs, cachedTree) ==
  IF cachedTree.kind = "tree"
  THEN LET layer0 == cachedTree.layers[1]
           again == [i \in 1..(Len(layer0) \div 2) |->
                       hashLeaves(layer0[2 * i - 1], layer0[2 * i])]
       IN [status |-> "ok", defined |-> TRUE,
           tree |-> [layers |-> Append(cachedTree.layers, again)],
           leaves |-> lvs.elems]
  ELSE IF cachedTree.kind = "undefined"
  THEN [status |-> "ok", defined |-> FALSE,
        tree |-> [layers |-> cachedTree.layers], leaves |-> lvs.elems]
  ELSE LET gen == generateMerkleTree(lvs.elems)
       IN [status |-> gen.status, defined |-> TRUE, tree |-> gen.tree,
           leaves |-> gen.leaves]

\* const { tree } = cachedTree !== null ? { tree: cachedTree } : await generateMerkleTree(leaves)
\* `defined` is FALSE when `tree` is undefined (the argument was left out).
treeOf(lvs, cachedTree) ==
  IF cachedTree.kind # "null"
  THEN [status |-> "ok", defined |-> cachedTree.kind = "tree",
        tree |-> [layers |-> cachedTree.layers], leaves |-> lvs.elems]
  ELSE LET gen == generateMerkleTree(lvs.elems)
       IN [status |-> gen.status, defined |-> TRUE, tree |-> gen.tree,
           leaves |-> gen.leaves]

\* Result: status "null" (returned null), "ok" (returned entries) or
\* "TypeError" (threw); `leaves` is the leaves array and `tree` the tree the
\* call worked on (the cached tree when one was passed), both after the call.
generateMerkleProof(leaf, lvs, cachedTree) ==
  IF Falsy(leaf) \/ ~lvs.isArray \/ Len(lvs.elems) = 0
  THEN [status |-> "null", entries |-> <<>>, leaves |-> lvs.elems,
        tree |-> [layers |-> cachedTree.layers]]
  ELSE LET gen == treeOf(lvs, cachedTree)
       IN IF gen.status = "TypeError" \/ ~gen.defined
          THEN \* generateMerkleTree threw, or tree.layers was read of undefined
               [status |-> "TypeError", entries |-> <<>>, leaves |-> gen.leaves,
                tree |-> gen.tree]
          ELSE LET tree == gen.tree
                   first == [hash |-> leaf,
                             direction |-> getLeafNodeDirectionInMerkleTree(leaf, tree.layers)]
                   hashIndex == findIndex(tree.layers[1], leaf)
               IN [status |-> "ok",
                   entries |-> proofLoop(tree, <<first>>, hashIndex, 0),
                   leaves |-> gen.leaves,
                   tree |-> tree]

\* ------------------------------------------------------------ proof verifier
\* a fold that puts the accumulator on the left whatever the direction says
RECURSIVE reduceLoopOneSided(_, _, _)
reduceLoopOneSided(merkleProof, accumulator, i) ==
  IF i < Len(merkleProof)
  THEN LET hash == hashLeaves(accumulator, merkleProof[i + 1].hash)
       IN IF hash = TypeError
          THEN [status |-> "TypeError", hash |-> Undefined]
          ELSE reduceLoopOneSided(merkleProof, hash, i + 1)
  ELSE [status |-> "ok", hash |-> accumulator]

\* a fold that accepts the two directions only and throws on any other value
RECURSIVE reduceLoopStrict(_, _, _)
reduceLoopStrict(merkleProof, accumulator, i) ==
  IF i < Len(merkleProof)
  THEN LET node == merkleProof[i + 1]
           hash == IF node.direction = RIGHT
                   THEN hashLeaves(accumulator, node.hash)
                   ELSE IF node.direction = LEFT
                   THEN hashLeaves(node.hash, accumulator)
                   ELSE TypeError
       IN IF hash = TypeError
          THEN [status |-> "TypeError", hash |-> Undefined]
          ELSE reduceLoopStrict(merkleProof, hash, i + 1)
  ELSE [status |-> "ok", hash |-> accumulator]

\* the loop of getMerkleRootFromMerkleProof from index i on (i is the code's i)
RECURSIVE reduceLoop(_, _, _)
reduceLoop(merkleProof, accumulator, i) ==
  IF i < Len(merkleProof)
  THEN LET node == merkleProof[i + 1]
           hash == IF node.direction = RIGHT
                   THEN hashLeaves(accumulator, node.hash)
                   ELSE hashLeaves(node.hash, accumulator)
       IN IF hash = TypeError
          THEN [status |-> "TypeError", hash |-> Undefined]
          ELSE reduceLoop(merkleProof, hash, i + 1)
  ELSE [status |-> "ok", hash |-> accumulator]

\* a verifier whose loop starts at entry 0 and so folds the leaf with itself
getMerkleRootFromZero(merkleProof) ==
  IF merkleProof.status = "null" \/ Len(merkleProof.entries) = 0
  THEN [status |-> "TypeError", hash |-> Undefined]
  ELSE reduceLoop(merkleProof.entries, merkleProof.entries[1].hash, 0)

\* merkleProof: [status, entries] as generateMerkleProof returned it; reading
\* [0].hash of null or of an empty array throws.
getMerkleRootFromMerkleProof(merkleProof) ==
  IF merkleProof.status = "null" \/ Len(merkleProof.entries) = 0
  THEN [status |-> "TypeError", hash |-> Undefined]
  ELSE reduceLoop(merkleProof.entries, merkleProof.entries[1].hash, 1)

\* ------------------------------------------------------------ the encoder
\* an encoder that leaves entry 0 (the leaf) out of the two arrays
RECURSIVE encodeLoopSiblings(_, _, _, _)
encodeLoopSiblings(merkleProof, pathElements, pathIndices, i) ==
  IF i + 1 < Len(merkleProof)
  THEN LET path == merkleProof[i + 2]
       IN encodeLoopSiblings(merkleProof, Append(pathElements, path.hash),
                             Append(pathIndices, path.direction), i + 1)
  ELSE [status |-> "ok", pathElements |-> pathElements, pathIndices |-> pathIndices]

\* the loop of encodeForCircuit from index i on
RECURSIVE encodeLoop(_, _, _, _)
encodeLoop(merkleProof, pathElements, pathIndices, i) ==
  IF i < Len(merkleProof)
  THEN LET path == merkleProof[i + 1]
       IN encodeLoop(merkleProof, Append(pathElements, path.hash),
                     Append(pathIndices, path.direction), i + 1)
  ELSE [status |-> "ok", pathElements |-> pathElements, pathIndices |-> pathIndices]

\* merkleProof: [status, entries]; reading .length of null throws
encodeForCircuit(merkleProof) ==
  IF merkleProof.status = "null"
  THEN [status |-> "TypeError", pathElements |-> <<>>, pathIndices |-> <<>>]
  ELSE encodeLoop(merkleProof.entries, <<>>, <<>>, 0)

\* ------------------------------------------------------------------ the caller
RECURSIVE SeqsUpTo(_, _)
SeqsUpTo(S, n) ==
  IF n = 0 THEN {<<>>}
  ELSE LET shorter == SeqsUpTo(S, n - 1)
       IN shorter \cup {Append(s, e) : s \in {t \in shorter : Len(t) = n - 1}, e \in S}

Elements == 0..MaxElem
LeafArrays == SeqsUpTo(Elements, MaxLeaves)
\* the leaf argument: an Element, or undefined
LeafInputs == Elements \cup {Undefined}
CacheKinds == {"null", "undefined", "tree"}

NoTree == [status |-> "none", tree |-> [layers |-> <<>>], root |-> Undefined]
NoQuery == [leaf |-> Undefined, cache |-> "none", hasLeaves |-> FALSE]
NoProof == [status |-> "none", entries |-> <<>>]
NoPrior == [query |-> NoQuery, proof |-> NoProof]
NoTamper == [kind |-> "none", index |-> 0, genuineRoot |-> Undefined]
NoRoot == [status |-> "none", hash |-> Undefined]
NoEncoding == [status |-> "none", pathElements |-> <<>>, pathIndices |-> <<>>]

\* the calls that may be in flight together, and a call not yet made
Callers == {"a", "b"}
NoResult == [status |-> "none", layers |-> <<>>, root |-> Undefined, entries |-> <<>>]
IdleCall == [kind |-> "none", leaf |-> Undefined, pc |-> "idle", layers |-> <<>>,
             combined |-> <<>>, pending |-> Undefined, result |-> NoResult]
NoCalls == [initial |-> <<>>, procs |-> [c \in Callers |-> IdleCall]]

\* nothing has been called yet
Idle ==
  /\ built = NoTree
  /\ query = NoQuery
  /\ proof = NoProof
  /\ prior = NoPrior
  /\ tamper = NoTamper
  /\ reduced = NoRoot
  /\ encoded = NoEncoding
  /\ calls = NoCalls

Init ==
  /\ TREELEVELS \in Depths
  /\ stub \in Stubs
  /\ leaves \in LeafArrays
  /\ Idle

\* The caller keeps the untouched result of the previous generateMerkleProof
\* call when it asks again for the same leaf with the same leaves.
Remember(leaf) ==
  IF tamper.kind = "none" /\ query.hasLeaves /\ query.leaf = leaf
  THEN [query |-> query, proof |-> proof]
  ELSE NoPrior

\* const { tree, root } = await generateMerkleTree(leaves)
Build ==
  /\ LET r == generateMerkleTree(leaves)
     IN /\ built' = [status |-> r.status, tree |-> r.tree, root |-> r.root]
        /\ leaves' = r.leaves
  /\ UNCHANGED <<TREELEVELS, stub, query, proof, prior, tamper, reduced, encoded, calls>>

\* merkleProof = await generateMerkleProof(leaf, leaves, cachedTree)
Prove(leaf, cache) ==
  /\ cache = "tree" => built.status = "ok"
  /\ LET cachedTree == [kind |-> cache,
                        layers |-> IF cache = "tree" THEN built.tree.layers ELSE <<>>]
         r == generateMerkleProof(leaf, [isArray |-> TRUE, elems |-> leaves], cachedTree)
     IN /\ proof' = [status |-> r.status, entries |-> r.entries]
        /\ leaves' = r.leaves
        \* the caller's tree is the object the call was given
        /\ built' = IF cache = "tree" THEN [built EXCEPT !.tree = r.tree] ELSE built
  /\ query' = [leaf |-> leaf, cache |-> cache, hasLeaves |-> TRUE]
  /\ prior' = Remember(leaf)
  /\ tamper' = NoTamper
  /\ reduced' = NoRoot
  /\ encoded' = NoEncoding
  /\ UNCHANGED <<TREELEVELS, stub, calls>>

\* generateMerkleProof(leaf, undefined, null): the leaves argument is missing
ProveWithoutLeaves(leaf) ==
  /\ LET r == generateMerkleProof(leaf, [isArray |-> FALSE, elems |-> <<>>],
                                  [kind |-> "null", layers |-> <<>>])
     IN proof' = [status |-> r.status, entries |-> r.entries]
  /\ query' = [leaf |-> leaf, cache |-> "null", hasLeaves |-> FALSE]
  /\ prior' = NoPrior
  /\ tamper' = NoTamper
  /\ reduced' = NoRoot
  /\ encoded' = NoEncoding
  /\ UNCHANGED <<TREELEVELS, stub, leaves, built, calls>>

\* reducedRoot = await getMerkleRootFromMerkleProof(merkleProof)
Verify ==
  /\ proof.status \in {"null", "ok"}
  /\ reduced' = getMerkleRootFromMerkleProof(proof)
  /\ UNCHANGED <<TREELEVELS, stub, leaves, built, query, proof, prior, tamper, encoded, calls>>

\* the values the hash of entry i is replaced by: a leaf value or its successor
TamperValues(i) ==
  (Elements \cup {proof.entries[i].hash + 1}) \ {proof.entries[i].hash}

\* the holder of a verified proof replaces the hash of one sibling entry
TamperHash(i, e) ==
  /\ proof.status = "ok" /\ reduced.status = "ok" /\ tamper.kind = "none"
  /\ i \in 2..Len(proof.entries)
  /\ e \in TamperValues(i)
  /\ proof' = [proof EXCEPT !.entries[i].hash = e]
  /\ tamper' = [kind |-> "hash", index |-> i - 1, genuineRoot |-> reduced.hash]
  /\ reduced' = NoRoot
  /\ encoded' = NoEncoding
  /\ prior' = NoPrior
  /\ UNCHANGED <<TREELEVELS, stub, leaves, built, query, calls>>

\* the holder of a verified proof flips the direction bit of one entry
TamperDirection(i) ==
  /\ proof.status = "ok" /\ reduced.status = "ok" /\ tamper.kind = "none"
  /\ i \in 1..Len(proof.entries)
  /\ proof' = [proof EXCEPT !.entries[i].direction = 1 - @]
  /\ tamper' = [kind |-> "direction", index |-> i - 1, genuineRoot |-> reduced.hash]
  /\ reduced' = NoRoot
  /\ encoded' = NoEncoding
  /\ prior' = NoPrior
  /\ UNCHANGED <<TREELEVELS, stub, leaves, built, query, calls>>

Next ==
  \/ Build
  \/ \E leaf \in LeafInputs, cache \in CacheKinds : Prove(leaf, cache)
  \/ \E leaf \in LeafInputs : ProveWithoutLeaves(leaf)
  \/ Verify
  \/ \E i \in 2..Len(proof.entries) : \E e \in TamperValues(i) : TamperHash(i, e)
  \/ \E i \in 1..Len(proof.entries) : TamperDirection(i)

Spec == Init /\ [][Next]_vars

\* ------------------------------------------------------ circuit encoding
\* const encodedProof = encodeForCircuit(merkleProof)
Encode ==
  /\ proof.status \in {"null", "ok"}
  /\ encoded' = encodeForCircuit(proof)
  /\ UNCHANGED <<TREELEVELS, stub, leaves, built, query, proof, prior, tamper,
                 reduced, calls>>

NextEncode ==
  \/ Build
  \/ \E leaf \in LeafInputs, cache \in CacheKinds : Prove(leaf, cache)
  \/ Encode

SpecEncode == Init /\ [][NextEncode]_vars

\* ------------------------------------------------------- malformed proofs
\* the holder of a verified proof drops its last entry
Truncate ==
  /\ proof.status = "ok" /\ reduced.status = "ok" /\ tamper.kind = "none"
  /\ Len(proof.entries) >= 2
  /\ proof' = [proof EXCEPT !.entries = SubSeq(@, 1, Len(@) - 1)]
  /\ tamper' = [kind |-> "length", index |-> Len(proof.entries) - 1,
                genuineRoot |-> reduced.hash]
  /\ reduced' = NoRoot
  /\ encoded' = NoEncoding
  /\ prior' = NoPrior
  /\ UNCHANGED <<TREELEVELS, stub, leaves, built, query, calls>>

\* the holder of a verified proof replaces the direction of one entry by a
\* value that is no direction: 2 for LEFT, 3 for RIGHT
MisDirect(i) ==
  /\ proof.status = "ok" /\ reduced.status = "ok" /\ tamper.kind = "none"
  /\ i \in 1..Len(proof.entries)
  /\ proof' = [proof EXCEPT !.entries[i].direction = @ + 2]
  /\ tamper' = [kind |-> "badDirection", index |-> i - 1, genuineRoot |-> reduced.hash]
  /\ reduced' = NoRoot
  /\ encoded' = NoEncoding
  /\ prior' = NoPrior
  /\ UNCHANGED <<TREELEVELS, stub, leaves, built, query, calls>>

NextMalformed ==
  \/ Build
  \/ \E leaf \in LeafInputs, cache \in CacheKinds : Prove(leaf, cache)
  \/ Verify
  \/ Truncate
  \/ \E i \in 1..Len(proof.entries) : MisDirect(i)

SpecMalformed == Init /\ [][NextMalformed]_vars

\* ------------------------------------------------- a tree of four levels
\* The module with TREELEVELS = 4 and the hash replaced by the sum of its
\* arguments, the caller building, proving and reducing.
ScenarioDepths == {4}
ScenarioArrays == SeqsUpTo(0..(MaxElem + 1), MaxLeaves)

InitScenario ==
  /\ TREELEVELS \in ScenarioDepths
  /\ stub = "sum"
  /\ leaves \in ScenarioArrays
  /\ Idle

NextScenario ==
  \/ Build
  \/ \E leaf \in LeafInputs, cache \in CacheKinds : Prove(leaf, cache)
  \/ Verify

SpecScenario == InitScenario /\ [][NextScenario]_vars

\* ------------------------------------------------------ interleaved calls
\* Several calls run on one event loop and share the caller's leaf array (and
\* the tree built from it, when there is one).  A call runs from one await to
\* the next without interruption; every `await hashLeaves(...)` and every
\* await of a returning async function is a point where another call may run.
\* A call owns the layers it pushes to its tree; layer 0 of its tree is the
\* shared array.  pc is the await the call is suspended at:
\*   "hash"     await hashLeaves(leaves[i], leaves[i + 1]) of generateMerkleRoot
\*   "padTree"  await generateMerkleRoot(leaves, tree) of generateMerkleTree
\*   "padHash"  await hashLeaves(lastRoot, lastRoot) of padTree
\*   "proof"    await generateMerkleTree(leaves) of generateMerkleProof
CallKinds == {"tree", "proof", "cached"}

\* the `leaves` parameter of the running generateMerkleRoot activation
CurrentLayer(c) == IF Len(c.layers) = 0 THEN leaves ELSE c.layers[Len(c.layers)]

SetCall(p, c) == calls' = [calls EXCEPT !.procs[p] = c]

Returned(c, status, layers, root, entries) ==
  [c EXCEPT !.pc = "done",
            !.result = [status |-> status, layers |-> layers, root |-> root,
                        entries |-> entries]]

\* a call starts and runs to its first await (or to its return)
Start(p, kind, leaf) ==
  LET c == [calls.procs[p] EXCEPT !.kind = kind, !.leaf = leaf]
  IN /\ calls.procs[p].pc = "idle"
     /\ kind = "cached" => built.status = "ok"
     /\ IF kind = "cached"
        THEN \* generateMerkleProof with the tree: no await on its way
             LET r == generateMerkleProof(leaf, [isArray |-> TRUE, elems |-> leaves],
                                          [kind |-> "tree", layers |-> built.tree.layers])
             IN /\ SetCall(p, Returned(c, r.status, <<>>, Undefined, r.entries))
                /\ leaves' = r.leaves
        ELSE IF kind = "proof" /\ (Falsy(leaf) \/ Len(leaves) = 0)
        THEN /\ SetCall(p, Returned(c, "null", <<>>, Undefined, <<>>))
             /\ UNCHANGED leaves
        ELSE IF Len(leaves) = 0
        THEN \* generateMerkleRoot returns [] at once
             /\ SetCall(p, [c EXCEPT !.pc = "padTree"])
             /\ UNCHANGED leaves
        ELSE LET even == ensureEven(leaves)
             IN /\ leaves' = even
                /\ SetCall(p, [c EXCEPT !.pc = "hash",
                                        !.pending = hashLeaves(At(even, 0), At(even, 1))])
     /\ UNCHANGED <<TREELEVELS, stub, built, query, proof, prior, tamper, reduced, encoded>>

\* a hashLeaves call of generateMerkleRoot settles and the call runs on
HashReturn(p) ==
  LET c == calls.procs[p]
      combinedHashes == Append(c.combined, c.pending)
      cur == CurrentLayer(c)
      i == 2 * Len(combinedHashes)
  IN /\ c.pc = "hash"
     /\ IF c.pending = TypeError
        THEN SetCall(p, Returned(c, "TypeError", <<>>, Undefined, <<>>))
        ELSE IF i < Len(cur)
        THEN SetCall(p, [c EXCEPT !.combined = combinedHashes,
                                  !.pending = hashLeaves(At(cur, i), At(cur, i + 1))])
        ELSE IF Len(combinedHashes) = 1
        THEN SetCall(p, [c EXCEPT !.layers = Append(@, combinedHashes),
                                  !.combined = <<>>, !.pending = Undefined,
                                  !.pc = "padTree"])
        ELSE LET even == ensureEven(combinedHashes)
             IN SetCall(p, [c EXCEPT !.layers = Append(@, even),
                                     !.combined = <<>>,
                                     !.pending = hashLeaves(At(even, 0), At(even, 1))])
     /\ UNCHANGED <<TREELEVELS, stub, leaves, built, query, proof, prior, tamper,
                    reduced, encoded>>

\* padTree starts, or its hashLeaves call settles, and the call runs on
PadStep(p) ==
  LET c == calls.procs[p]
      layers == IF c.pc = "padHash" THEN Append(c.layers, <<c.pending>>) ELSE c.layers
      i == Len(layers)
      lastLayer == IF i = 0 THEN leaves ELSE layers[i]
      lastRoot == At(lastLayer, 0)
  IN /\ c.pc \in {"padTree", "padHash"}
     /\ IF c.pc = "padHash" /\ c.pending = TypeError
        THEN /\ SetCall(p, Returned(c, "TypeError", <<>>, Undefined, <<>>))
             /\ UNCHANGED leaves
        ELSE IF i < TREELEVELS - 1
        THEN /\ leaves' = IF i = 0 THEN Append(leaves, lastRoot) ELSE leaves
             /\ SetCall(p, [c EXCEPT !.layers = IF i = 0 THEN layers
                                                ELSE [layers EXCEPT ![i] = Append(@, lastRoot)],
                                     !.pending = hashLeaves(lastRoot, lastRoot),
                                     !.pc = "padHash"])
        ELSE /\ UNCHANGED leaves
             /\ IF c.kind = "tree"
                THEN SetCall(p, Returned(c, "ok", layers, lastRoot, <<>>))
                ELSE SetCall(p, [c EXCEPT !.layers = layers, !.pending = Undefined,
                                          !.pc = "proof"])
     /\ UNCHANGED <<TREELEVELS, stub, built, query, proof, prior, tamper, reduced, encoded>>

\* generateMerkleProof resumes with the tree it built and returns the proof
ProofReturn(p) ==
  LET c == calls.procs[p]
      tree == [layers |-> <<leaves>> \o c.layers]
      first == [hash |-> c.leaf,
                direction |-> getLeafNodeDirectionInMerkleTree(c.leaf, tree.layers)]
      hashIndex == findIndex(tree.layers[1], c.leaf)
  IN /\ c.pc = "proof"
     /\ SetCall(p, Returned(c, "ok", <<>>, Undefined,
                            proofLoop(tree, <<first>>, hashIndex, 0)))
     /\ UNCHANGED <<TREELEVELS, stub, leaves, built, query, proof, prior, tamper,
                    reduced, encoded>>

\* the calls start on the caller's array as it is, or as an earlier
\* generateMerkleTree left it together with the tree it returned
InitConcurrent ==
  /\ TREELEVELS \in Depths
  /\ stub \in Stubs
  /\ \E l \in LeafArrays :
       \/ leaves = l /\ built = NoTree
       \/ LET r == generateMerkleTree(l)
          IN /\ r.status = "ok"
             /\ leaves = r.leaves
             /\ built = [status |-> "ok", tree |-> r.tree, root |-> r.root]
  /\ calls = [initial |-> leaves, procs |-> [c \in Callers |-> IdleCall]]
  /\ query = NoQuery
  /\ proof = NoProof
  /\ prior = NoPrior
  /\ tamper = NoTamper
  /\ reduced = NoRoot
  /\ encoded = NoEncoding

NextConcurrent ==
  \/ \E p \in Callers, kind \in CallKinds, leaf \in LeafInputs : Start(p, kind, leaf)
  \/ \E p \in Callers : HashReturn(p)
  \/ \E p \in Callers : PadStep(p)
  \/ \E p \in Callers : ProofReturn(p)

SpecConcurrent == InitConcurrent /\ [][NextConcurrent]_vars

\* ---------------------------------------------------------------- properties
\* the caller's array is a non-empty sequence of Elements
ValidLeaves == Len(leaves) > 0 /\ \A i \in 1..Len(leaves) : leaves[i] \in Nat
\* x occurs in the caller's array
InLeaves(x) == \E i \in 1..Len(leaves) : leaves[i] = x
\* the proof in hand is the one generateMerkleProof returned for the last query
Untouched == query.cache # "none" /\ tamper.kind = "none"
\* one generateMerkleProof call on the caller's array
ProveStep == \E leaf \in LeafInputs, cache \in CacheKinds : Prove(leaf, cache)

\* C1 - Round-trip membership: for every leaf x that occurs in the non-empty
\* leaf array (0 included), reducing generateMerkleProof(x, leaves, null) gives
\* the root generateMerkleTree returns for the same array.
C1_RoundTrip ==
  (/\ Untouched /\ query.hasLeaves /\ query.cache = "null"
   /\ ValidLeaves /\ InLeaves(query.leaf)
   /\ built.status = "ok" /\ reduced.status # "none")
  => (reduced.status = "ok" /\ reduced.hash = built.root)

\* C2 - Fixed tree depth: every tree generateMerkleTree returns for a non-empty
\* leaf array has exactly TREELEVELS layers, whatever the number of leaves.
C2_FixedDepth ==
  (built.status = "ok" /\ ValidLeaves) => Len(built.tree.layers) = TREELEVELS

\* C3 - Fixed proof length: for a non-empty leaf array and a leaf x in it, a
\* proof that generateMerkleProof returns has exactly TREELEVELS entries,
\* whatever the number of leaves.
C3_FixedProofLength ==
  (/\ Untouched /\ query.hasLeaves /\ query.cache \in {"null", "tree"}
   /\ ValidLeaves /\ InLeaves(query.leaf) /\ proof.status = "ok")
  => Len(proof.entries) = TREELEVELS

\* C4 - NotFound: asked for an Element that does not occur in layer 0,
\* generateMerkleProof fails explicitly and returns no proof.
C4_NotFound ==
  (/\ Untouched /\ query.hasLeaves /\ query.cache \in {"null", "tree"}
   /\ ValidLeaves /\ query.leaf \in Nat /\ ~InLeaves(query.leaf))
  => proof.status = "null"

\* C5 - Empty build: generateMerkleTree of an empty leaf array does not fail and
\* returns a tree with zero layers and no root.
C5_EmptyBuild ==
  [][(Len(leaves) = 0 /\ Build)
     => (/\ built'.status = "ok"
         /\ Len(built'.tree.layers) = 0
         /\ built'.root = Undefined)]_vars

\* the value getMerkleRootFromMerkleProof folds from entries 0..i-1 of the proof
FoldedBefore(i) ==
  getMerkleRootFromMerkleProof([status |-> "ok", entries |-> SubSeq(proof.entries, 1, i)]).hash

\* the caller has reduced a proof it altered in one place after reducing it intact
TamperedAndReduced ==
  stub = "pairing" /\ tamper.kind # "none" /\ reduced.status # "none"

\* C6 (as claimed) - Tamper sensitivity: with an injective hash, replacing one
\* sibling hash of a valid proof by another Element, or flipping any one
\* direction bit, changes the root getMerkleRootFromMerkleProof returns.
C6_TamperChangesRoot ==
  TamperedAndReduced => reduced.hash # tamper.genuineRoot

\* C6 (amended) - with an injective hash, replacing one sibling hash always
\* changes the reduced root, and flipping the direction bit of entry i changes
\* it exactly when i >= 1 and the hash of entry i differs from the value folded
\* from entries 0..i-1; the bit of entry 0 and the bit of an entry that equals
\* the folded value (every padding level) change nothing.
C6_TamperSensitivity ==
  TamperedAndReduced =>
    ((reduced.hash = tamper.genuineRoot)
       <=> (/\ tamper.kind = "direction"
            /\ \/ tamper.index = 0
               \/ proof.entries[tamper.index + 1].hash = FoldedBefore(tamper.index)))

\* the direction bit of a sibling entry was flipped and the reduced root changed
C6_Witness ==
  /\ TamperedAndReduced
  /\ reduced.status = "ok"
  /\ reduced.hash # tamper.genuineRoot
  /\ tamper.kind = "direction"
  /\ tamper.index >= 1

\* the two generateMerkleProof calls the caller compares: same leaf, same
\* leaves, one with the tree generateMerkleTree returned and one with null
CachedAndFresh ==
  /\ Untouched /\ query.hasLeaves
  /\ prior.proof.status # "none"
  /\ {query.cache, prior.query.cache} = {"null", "tree"}
  /\ ValidLeaves /\ InLeaves(query.leaf)

\* C7 - Cache consistency: for a leaf of the non-empty leaf array,
\* generateMerkleProof with the tree generateMerkleTree built returns the same
\* outcome, entry by entry, as generateMerkleProof with null.
C7_CacheConsistency ==
  CachedAndFresh =>
    (proof.status = prior.proof.status /\ proof.entries = prior.proof.entries)

\* both calls returned a proof with sibling entries
C7_Witness ==
  CachedAndFresh /\ proof.status = "ok" /\ Len(proof.entries) >= 2

\* the elements of an array
Range(arr) == {arr[i] : i \in 1..Len(arr)}

\* a generateMerkleProof call without a tree, for a leaf of the non-empty
\* leaf array that passes the input guard
WithoutTree(kinds) ==
  /\ Untouched /\ query.hasLeaves /\ query.cache \in kinds
  /\ ValidLeaves /\ InLeaves(query.leaf) /\ ~Falsy(query.leaf)

\* the call built the tree from the leaves (which pads them to even length)
\* and returned a proof against it: one entry per layer of the tree
\* generateMerkleTree returns for these leaves, each sibling from its layer
ProofAgainstBuiltTree ==
  /\ proof.status = "ok"
  /\ Len(leaves) % 2 = 0
  /\ built.status = "ok" =>
       (/\ Len(proof.entries) = Len(built.tree.layers)
        /\ \A l \in 1..(Len(proof.entries) - 1) :
             proof.entries[l + 1].hash \in Range(built.tree.layers[l]))

\* C8 (as claimed) - No cached tree supplied: called with the third argument
\* omitted or passed as null, generateMerkleProof builds the tree from the
\* leaves with generateMerkleTree and returns a proof against that tree.
C8_NoCachedTree ==
  WithoutTree({"null", "undefined"}) => ProofAgainstBuiltTree

\* C8 (amended) - called with the third argument passed as null,
\* generateMerkleProof builds the tree from the leaves and returns a proof
\* against that tree; called with the third argument omitted it throws a
\* TypeError and returns nothing.
C8_NullCachedTree ==
  /\ WithoutTree({"null"}) => ProofAgainstBuiltTree
  /\ WithoutTree({"undefined"}) => (proof.status = "TypeError" /\ proof.entries = <<>>)

\* a proof returned for a null third argument, with the tree of the same
\* leaves at hand, and a call with the argument omitted
C8_Witness ==
  /\ WithoutTree({"null"})
  /\ proof.status = "ok" /\ built.status = "ok" /\ Len(proof.entries) >= 2
  /\ prior.query.cache = "undefined" /\ prior.proof.status = "TypeError"

\* C9 - Null outcome of prove: generateMerkleProof returns null, leaving the
\* leaves as they are, when the leaves are empty or missing or the leaf is not
\* an Element; for non-empty leaves and any Element (0 included) it does not
\* return null.
C9_NullOutcome ==
  [][/\ (\E leaf \in LeafInputs : ProveWithoutLeaves(leaf))
          => (proof'.status = "null" /\ leaves' = leaves)
     /\ ProveStep
          => (/\ (Len(leaves) = 0 \/ query'.leaf = Undefined)
                   => (proof'.status = "null" /\ leaves' = leaves)
              /\ (ValidLeaves /\ query'.leaf \in Nat) => proof'.status # "null")]_vars

\* C10 - Leaf sequence is read-only: generateMerkleTree and generateMerkleProof
\* leave the caller's non-empty leaf array as it was, of even or of odd length.
C10_LeavesReadOnly ==
  [][(ValidLeaves /\ (Build \/ ProveStep)) => leaves' = leaves]_vars

\* a generateMerkleProof call that is given the caller's tree
CachedProveStep == \E leaf \in LeafInputs : Prove(leaf, "tree")

\* C11 - Tree is immutable once built: a generateMerkleProof call that is given
\* the tree generateMerkleTree returned, for any leaf (present, absent, 0 or
\* undefined), leaves every layer of the tree as it was, and when the call
\* before it was given the same tree and the same leaf it returns the same proof.
C11_TreeImmutable ==
  [][CachedProveStep =>
       (/\ built' = built
        /\ (Untouched /\ query.hasLeaves /\ query.cache = "tree"
              /\ query'.leaf = query.leaf)
             => proof' = proof)]_vars

\* the caller asked twice for the same leaf with its tree and got a proof
C11_Witness ==
  /\ Untouched /\ query.hasLeaves /\ query.cache = "tree"
  /\ prior.query.cache = "tree" /\ prior.proof.status = "ok"
  /\ proof.status = "ok" /\ built.status = "ok"
  /\ Len(proof.entries) >= 2

\* C12 - Odd-layer padding equivalence: for every leaf array of odd length
\* with last element c, generateMerkleTree returns the root it returns for the
\* same array followed by c; the call leaves that longer array in the
\* caller's hands.
C12_PaddingEquivalence ==
  [][(Build /\ ValidLeaves /\ Len(leaves) % 2 = 1) =>
       (/\ built'.status = "ok"
        /\ leaves' = Append(leaves, leaves[Len(leaves)])
        /\ built'.root = generateMerkleTree(leaves').root)]_vars

\* generateMerkleTree was called on an array of MaxLeaves elements of which the
\* first and the last differ, and made it longer than any array the caller
\* started with (no generateMerkleProof call has run, so the build padded it)
C12_Witness ==
  /\ built.status = "ok" /\ query.cache = "none"
  /\ Len(leaves) > MaxLeaves /\ leaves[1] # leaves[Len(leaves)]

\* the caller's array <<1, 2, 3>> once a call has padded it
ScenarioLeaves == <<1, 2, 3, 3>>

\* C13 - Concrete padded tree scenario: with leaves [1, 2, 3], four levels and
\* the sum as hash, generateMerkleTree returns the root 18,
\* generateMerkleProof(2, leaves, null) returns exactly
\* [(2, RIGHT), (1, LEFT), (6, RIGHT), (9, RIGHT)], and reducing that proof
\* gives 18.
C13_Scenario ==
  (TREELEVELS = 4 /\ stub = "sum" /\ leaves = ScenarioLeaves) =>
    /\ built.status # "none" => (built.status = "ok" /\ built.root = 18)
    /\ (Untouched /\ query.hasLeaves /\ query.cache = "null" /\ query.leaf = 2) =>
         /\ proof = [status |-> "ok",
                     entries |-> << [hash |-> 2, direction |-> RIGHT],
                                    [hash |-> 1, direction |-> LEFT],
                                    [hash |-> 6, direction |-> RIGHT],
                                    [hash |-> 9, direction |-> RIGHT] >>]
         /\ reduced.status # "none" => reduced = [status |-> "ok", hash |-> 18]

\* the tree of [1, 2, 3] was built while the array had three elements, the proof
\* of 2 was generated without a tree and reduced
C13_Witness ==
  /\ TREELEVELS = 4 /\ stub = "sum" /\ leaves = ScenarioLeaves
  /\ Len(leaves) > MaxLeaves
  /\ built.status = "ok"
  /\ Untouched /\ query.hasLeaves /\ query.cache = "null" /\ query.leaf = 2
  /\ reduced.status = "ok"

\* the proof in hand has a length other than TREELEVELS or holds a direction
\* that is neither LEFT nor RIGHT
Malformed ==
  /\ proof.status = "ok"
  /\ \/ Len(proof.entries) # TREELEVELS
     \/ \E i \in 1..Len(proof.entries) : proof.entries[i].direction \notin {LEFT, RIGHT}

\* C14 - Malformed proof rejection (as claimed): getMerkleRootFromMerkleProof
\* given a proof whose length differs from TREELEVELS, or that holds a direction
\* other than LEFT and RIGHT, fails with an error instead of returning a root.
C14_MalformedRejected ==
  (Malformed /\ reduced.status # "none") => reduced.status = "TypeError"

\* C14 (amended) - getMerkleRootFromMerkleProof validates nothing: a malformed
\* proof whose hashes are all defined is folded to a value like any other.  A
\* proof cut by its last entry folds to a node of the tree layer it now stops
\* at, and a direction that is neither LEFT nor RIGHT is folded as LEFT.
C14_NoValidation ==
  (/\ Malformed /\ reduced.status # "none"
   /\ \A i \in 1..Len(proof.entries) : proof.entries[i].hash # Undefined) =>
    /\ reduced.status = "ok"
    /\ (tamper.kind = "length" /\ built.status = "ok") =>
         reduced.hash \in Range(built.tree.layers[Len(proof.entries)])
    /\ (/\ tamper.kind = "badDirection"
        /\ proof.entries[tamper.index + 1].direction = LEFT + 2) =>
         reduced.hash = tamper.genuineRoot

\* a proof of TREELEVELS entries in which a sibling's LEFT was replaced by 2
\* has been reduced, and the sibling is not the value it is hashed with
C14_Witness ==
  /\ Malformed /\ reduced.status = "ok" /\ stub = "pairing"
  /\ Len(proof.entries) = TREELEVELS
  /\ tamper.kind = "badDirection" /\ tamper.index >= 1
  /\ proof.entries[tamper.index + 1].direction = LEFT + 2
  /\ proof.entries[tamper.index + 1].hash # FoldedBefore(tamper.index)

\* encodeForCircuit has reshaped the proof in hand: both arrays have the
\* length of the proof and hold its hashes and its directions, entry 0 included
EncodingReshapes ==
  /\ encoded.status = "ok"
  /\ Len(encoded.pathElements) = Len(proof.entries)
  /\ Len(encoded.pathIndices) = Len(proof.entries)
  /\ \A i \in 1..Len(proof.entries) :
       /\ encoded.pathElements[i] = proof.entries[i].hash
       /\ encoded.pathIndices[i] = proof.entries[i].direction

\* C16 - Circuit encoding: for every proof p, encodeForCircuit(p) returns
\* pathElements and pathIndices of the length of p, which is TREELEVELS for a
\* proof generateMerkleProof returned, with pathElements[i] = p[i].hash and
\* pathIndices[i] = p[i].direction for every i, and every pathIndices value of
\* a generated proof is 0 or 1.
C16_CircuitEncoding ==
  (proof.status = "ok" /\ encoded.status # "none") =>
    /\ EncodingReshapes
    /\ Untouched =>
         /\ Len(encoded.pathElements) = TREELEVELS
         /\ Len(encoded.pathIndices) = TREELEVELS
         /\ \A i \in 1..Len(encoded.pathIndices) : encoded.pathIndices[i] \in {0, 1}

\* what holds of the encoding of every returned proof, whatever its length
C16_Reshaping ==
  (proof.status = "ok" /\ encoded.status # "none") =>
    /\ EncodingReshapes
    /\ Untouched =>
         \A i \in 1..Len(encoded.pathIndices) : encoded.pathIndices[i] \in {0, 1}

\* what the call returns when it runs alone on the array the calls started with
Alone(c) ==
  IF c.kind = "tree"
  THEN LET r == generateMerkleTree(calls.initial)
       IN [status |-> r.status, layers |-> r.tree.layers, root |-> r.root,
           entries |-> <<>>]
  ELSE LET r == generateMerkleProof(
                  c.leaf, [isArray |-> TRUE, elems |-> calls.initial],
                  [kind |-> IF c.kind = "cached" THEN "tree" ELSE "null",
                   layers |-> IF c.kind = "cached" THEN built.tree.layers ELSE <<>>])
       IN [status |-> r.status, layers |-> <<>>, root |-> Undefined,
           entries |-> r.entries]

\* what the call returned; the tree it returned has the shared array as layer 0
Interleaved(c) ==
  IF c.kind = "tree" /\ c.result.status = "ok"
  THEN [c.result EXCEPT !.layers = <<leaves>> \o @]
  ELSE c.result

\* C15 - Concurrent invocations: when generateMerkleTree and generateMerkleProof
\* calls that share the leaf array (and the tree built from it) are interleaved
\* at their awaits, every call returns the tree, root or proof it returns when
\* it runs alone.
C15_ConcurrentAsAlone ==
  \A p \in Callers :
    calls.procs[p].pc = "done" => Interleaved(calls.procs[p]) = Alone(calls.procs[p])

\* the same, for calls that start on a non-empty array of Elements
C15_NonEmptyAsAlone ==
  (Len(calls.initial) > 0 /\ \A i \in 1..Len(calls.initial) : calls.initial[i] \in Nat)
    => C15_ConcurrentAsAlone

\* C17 - Tree well-formedness: in every tree generateMerkleTree returned for a
\* non-empty leaf array, every layer but the last has even length, the last
\* layer has length 1 and its element is the returned root, and each node of
\* layer k + 1 is the hash of the two nodes below it:
\* layers[k + 1][i] = H(layers[k][2i], layers[k][2i + 1]) for every i below
\* half the length of layer k.
C17_WellFormed ==
  built.status = "ok" =>
    LET layers == built.tree.layers
        n == Len(layers)
    IN /\ n >= 1
       /\ Len(layers[n]) = 1
       /\ layers[n][1] = built.root
       /\ \A k \in 1..(n - 1) :
            /\ Len(layers[k]) > 0
            /\ Len(layers[k]) % 2 = 0
            /\ \A i \in 0..((Len(layers[k]) \div 2) - 1) :
                 /\ i < Len(layers[k + 1])
                 /\ layers[k + 1][i + 1] # TypeError
                 /\ layers[k + 1][i + 1] =
                      hashLeaves(layers[k][2 * i + 1], layers[k][2 * i + 2])

\* a tree of three layers was built from two different leaves: its layer 1 was
\* padded with a copy of the root of the pair
C17_Witness ==
  /\ built.status = "ok" /\ stub = "pairing"
  /\ Len(built.tree.layers) = 3
  /\ Len(built.tree.layers[1]) = 2
  /\ built.tree.layers[1][1] # built.tree.layers[1][2]
  /\ Len(built.tree.layers[2]) = 2

\* the index (from 0) of the first occurrence of x in the caller's array
FirstOccurrence(x) ==
  CHOOSE j \in 0..(Len(leaves) - 1) :
    leaves[j + 1] = x /\ \A k \in 0..(j - 1) : leaves[k + 1] # x

\* a proof was returned for a leaf of the array from which the caller's tree
\* was built
ProvedPresentLeaf ==
  /\ Untouched /\ query.hasLeaves /\ query.cache \in {"null", "tree"}
  /\ proof.status = "ok" /\ built.status = "ok"
  /\ InLeaves(query.leaf)

\* C18 - Proof path: a proof returned for a leaf x whose first occurrence in
\* layer 0 is at index j has entry 0 = (x, LEFT if j is even, RIGHT if odd) and,
\* for every level l up to the second-to-last layer, with j_l = floor(j / 2^l),
\* entry l + 1 = (layers[l][j_l + 1], RIGHT) if j_l is even and
\* (layers[l][j_l - 1], LEFT) if j_l is odd; every sibling index lies inside
\* its layer, so no entry has a missing hash.
C18_ProofPath ==
  ProvedPresentLeaf =>
    LET layers == built.tree.layers
        j == FirstOccurrence(query.leaf)
    IN /\ Len(proof.entries) = Len(layers)
       /\ proof.entries[1] =
            [hash |-> query.leaf,
             direction |-> IF j % 2 = 0 THEN LEFT ELSE RIGHT]
       /\ \A l \in 0..(Len(layers) - 2) :
            LET jl == j \div (2 ^ l)
                sibling == IF jl % 2 = 0 THEN jl + 1 ELSE jl - 1
            IN /\ sibling \in 0..(Len(layers[l + 1]) - 1)
               /\ proof.entries[l + 2] =
                    [hash |-> layers[l + 1][sibling + 1],
                     direction |-> IF jl % 2 = 0 THEN RIGHT ELSE LEFT]
               /\ proof.entries[l + 2].hash \in Nat

\* a proof of three entries or more was returned for a leaf that first occurs
\* at index 2: a left child in layer 0 whose parent is a right child in layer 1
C18_Witness ==
  /\ ProvedPresentLeaf /\ stub = "pairing"
  /\ Len(proof.entries) >= 3
  /\ FirstOccurrence(query.leaf) = 2

\* the accumulator after the entries 1..n of p (entry 0 is the leaf), as the
\* fold is specified: H(acc, hash) for RIGHT, H(hash, acc) for LEFT
RECURSIVE Accumulated(_, _)
Accumulated(p, n) ==
  IF n = 0 THEN p[1].hash
  ELSE IF p[n + 1].direction = RIGHT
       THEN hashLeaves(Accumulated(p, n - 1), p[n + 1].hash)
       ELSE hashLeaves(p[n + 1].hash, Accumulated(p, n - 1))

\* the proof in hand has entries, each with a hash and a direction
FoldableProof ==
  /\ proof.status = "ok"
  /\ \A i \in 1..Len(proof.entries) :
       proof.entries[i].hash \in Nat /\ proof.entries[i].direction \in {LEFT, RIGHT}

\* C19 - Verifier fold: getMerkleRootFromMerkleProof(p) returns the accumulator
\* that starts as p[0].hash and takes the entries 1..len(p)-1 in order,
\* H(acc, hash) for RIGHT and H(hash, acc) for LEFT; the result does not depend
\* on p[0].direction (a proof whose entry 0 had its direction flipped reduces
\* to the root of the intact proof), and the proof is not modified.
C19_VerifierFold ==
  [][(Verify /\ FoldableProof) =>
       (/\ reduced' = [status |-> "ok",
                       hash |-> Accumulated(proof.entries, Len(proof.entries) - 1)]
        /\ (tamper.kind = "direction" /\ tamper.index = 0)
             => reduced'.hash = tamper.genuineRoot
        /\ proof' = proof)]_vars

\* a proof of three entries or more was reduced after the direction of its
\* entry 0 was flipped
C19_Witness ==
  /\ FoldableProof /\ stub = "pairing"
  /\ reduced.status = "ok"
  /\ tamper.kind = "direction" /\ tamper.index = 0
  /\ Len(proof.entries) >= 3
  /\ \E i \in 2..Len(proof.entries) : proof.entries[i].direction = LEFT
  /\ \E i \in 2..Len(proof.entries) : proof.entries[i].direction = RIGHT

====
